---- MODULE Spec2Model ----
(***************************************************************************)
(* A model of the LibRawWrapper session object of src/src/libraw_wrapper.cpp *)
(* (a Node.js N-API binding of the LibRaw decoder).                          *)
(*                                                                           *)
(* The wrapper's own state is the trio isLoaded / isUnpacked / isProcessed.  *)
(* Everything else lives in the LibRaw instance `processor`, whose code is   *)
(* not part of the sources: the model keeps of it only what the wrapper      *)
(* writes into it or hands to it (imgdata.params, the cancel flag, the byte  *)
(* source given to open_file/open_buffer), and draws every status code and   *)
(* every image it returns nondeterministically.                              *)
(*                                                                           *)
(* Memory is one heap of MaxAddr cells; a cell is Free or holds an abstract  *)
(* byte content.  Address 0 is the null pointer.  The caller's               *)
(* Buffers, the images the library allocates and the Buffers the wrapper     *)
(* returns are cells of that heap.                                           *)
(*                                                                           *)
(* Every instance method is registered with InstanceMethod (lines 12-55) and *)
(* runs synchronously on the JavaScript thread that owns the object: while   *)
(* a native call is executing no other method of the object can start.  The  *)
(* two long-running calls processImage and unpack are modelled in two steps  *)
(* (entry, return) so that the state "the call is in progress" exists;       *)
(* `active` names the call in progress.                                      *)
(***************************************************************************)
EXTENDS Integers, Sequences, FiniteSets, TLC

\* ---------------------------------------------------------------- bounds
MaxAddr == 2     \* the cells of the heap

Addr  == 1..MaxAddr
\* The contents a cell can have, as abstract byte strings: the pixel bytes of an
\* image the library made, the bytes of a RAW file the script read into a Buffer,
\* and the unspecified bytes of an image returned together with an error code.
Bytes == {"pixelsA", "pixelsB"}
Raw   == "raw"
Junk  == "junk"
Free  == "free"

VARIABLES
    isLoaded, isUnpacked, isProcessed,  \* libraw_wrapper.h:103-105
    lib,        \* what the wrapper has put into *processor
    heap,       \* Addr -> Free or the content of the cell
    bufs,       \* the Buffers the calling script holds (addresses)
    held,       \* the image objects returned to the script and still referenced
    alive,      \* FALSE once the wrapper object has been destroyed
    active,     \* "idle", or the native call the JavaScript thread is inside
    last,       \* the outcome of the last method call (observation)
    peer        \* the members of a second LibRawWrapper object of the script

vars == <<isLoaded, isUnpacked, isProcessed, lib, heap, bufs, held, alive, active, last, peer>>

\* ------------------------------------------------------- library vocabulary
LIBRAW_SUCCESS == "LIBRAW_SUCCESS"
FailCodes == {"LIBRAW_OUT_OF_ORDER_CALL", "LIBRAW_CANCELLED_BY_CALLBACK"}
Codes == {LIBRAW_SUCCESS} \cup FailCodes

\* libraw_strerror: the library's message for a status code.
libraw_strerror(ret) ==
    CASE ret = "LIBRAW_OUT_OF_ORDER_CALL"     -> "Out of order call of libraw function"
      [] ret = "LIBRAW_CANCELLED_BY_CALLBACK" -> "Cancelled by user callback"
      [] OTHER                                -> "No error"

NoError == <<>>
LibError(prefix, ret) == <<"Error", prefix, libraw_strerror(ret)>>
TypeError(msg) == <<"TypeError", msg>>
NotLoadedError == <<"Error", "No file loaded. Call loadFile() first.">>

\* What the getters read of processor->imgdata: the character arrays (a string,
\* "" when the first character is 0) and the numbers, by field name.
StringFields ==
    {"idata.make", "idata.model", "idata.software", "lens.Lens", "lens.LensMake",
     "lens.LensSerial", "lens.InternalLensSerial"}
NumberFields ==
    {"sizes.width", "sizes.height", "sizes.raw_width", "sizes.raw_height",
     "idata.colors", "idata.filters", "other.iso_speed", "other.shutter",
     "other.aperture", "other.focal_len", "other.timestamp", "lens.MinFocal",
     "lens.MaxFocal", "lens.MaxAp4MinFocal", "lens.MaxAp4MaxFocal", "lens.EXIF_MaxAp",
     "lens.FocalLengthIn35mmFormat"}

\* imgdata of a file that records everything, and of one that records nothing.
FullMeta  == [str |-> [f \in StringFields |-> "x"], num |-> [f \in NumberFields |-> 1]]
EmptyMeta == [str |-> [f \in StringFields |-> ""],  num |-> [f \in NumberFields |-> 0]]

\* The files the script can have: one of the two above with at most one field
\* set differently (a number can also be negative).  A file is named by what
\* sets it apart; Imgdata is what the library reads out of it.
FullFile == [base |-> "full", field |-> "none", str |-> "", num |-> 0]
Files ==
    {[base |-> b, field |-> "none", str |-> "", num |-> 0] : b \in {"full", "empty"}}
    \cup {[base |-> b, field |-> f, str |-> v, num |-> 0] :
             b \in {"full", "empty"}, f \in StringFields, v \in {"", "x"}}
    \cup {[base |-> b, field |-> f, str |-> "", num |-> v] :
             b \in {"full", "empty"}, f \in NumberFields, v \in {-1, 0, 1}}

Imgdata(file) ==
    LET base == IF file.base = "full" THEN FullMeta ELSE EmptyMeta IN
    [str |-> [f \in StringFields |-> IF f = file.field THEN file.str ELSE base.str[f]],
     num |-> [f \in NumberFields |-> IF f = file.field THEN file.num ELSE base.num[f]]]

\* The byte source *processor reads from: its kind, and for a memory source the
\* address handed to open_buffer and the content the cell had at that moment.
\* The versions the library can have, <<major, minor, patch>>, and the one the
\* script is taken to run with where the version does not matter.
MaxMajor == 2
LibVersions == (0..MaxMajor) \X (0..99) \X (0..99)
DefaultVersion == <<0, 21, 1>>

\* LibRaw::versionNumber(), as line 1161 describes it: "encoded as XXYYZZ where
\* XX.YY.ZZ is the version".
versionNumber(version) == version[1] * 10000 + version[2] * 100 + version[3]

NoSource == [kind |-> "none", addr |-> 0, content |-> Free]

\* imgdata.params as the LibRaw constructor leaves it (make_unique<LibRaw>()).
\* The int fields hold whole numbers, gamm, bright and user_mul count in quarters.
DefaultParams ==
    [gamm |-> <<2, 18>>, bright |-> 4, output_color |-> 1, output_bps |-> 8,
     user_mul |-> <<0, 0, 0, 0>>, no_auto_bright |-> 0, highlight |-> 0,
     output_tiff |-> 0]

Flags == <<isLoaded, isUnpacked, isProcessed>>

FreeCells(h) == {a \in Addr : h[a] = Free}
Lowest(S) == CHOOSE a \in S : \A b \in S : a <= b
\* malloc / Buffer allocation: the lowest free cell.
Alloc(h) == Lowest(FreeCells(h))

\* A JavaScript value: its type and, by type, its value (a number, a boolean,
\* an array of numbers).  A property the object does not have is `undefined`.
Undefined == [t |-> "undefined", n |-> 0, b |-> FALSE, a |-> <<>>]
Number(n)  == [t |-> "number",  n |-> n, b |-> FALSE, a |-> <<>>]
Boolean(b) == [t |-> "boolean", n |-> 0, b |-> b,     a |-> <<>>]
Array(a)   == [t |-> "array",   n |-> 0, b |-> FALSE, a |-> a]
String(s)  == [t |-> "string", s |-> s]

NoParams ==
    [gamma |-> Undefined, bright |-> Undefined, output_color |-> Undefined,
     output_bps |-> Undefined, user_mul |-> Undefined, no_auto_bright |-> Undefined,
     highlight |-> Undefined, output_tiff |-> Undefined]

\* The record every method call leaves behind: what it returned, what it threw,
\* which calls and accesses it made on *processor, and the flags it started from.
\* `container` is the file format a writer produced, `stale` tells that the
\* library read its byte source while that source was no longer what was loaded.
\* `ret` is the last status code the library returned to the method ("none"
\* when it made no call that has one).  `arg` is <<the object setOutputParams
\* was given>>, `object` <<the object getOutputParams returned>> (<<>> for the
\* other methods), `keys` the property names of the object getMetadata or
\* getLensInfo returned.
Outcome(op, result, error, calls, pre, container, stale) ==
    [op |-> op, result |-> result, error |-> error, calls |-> calls,
     pre |-> pre, container |-> container, stale |-> stale, ret |-> "none",
     arg |-> <<>>, object |-> <<>>, keys |-> {}]

Returned(ret, outcome) == [outcome EXCEPT !.ret = ret]

Idle == alive /\ active = "idle"

\* ------------------------------------------------------------ construction
\* The members of one LibRawWrapper object (libraw_wrapper.h:102-105).
Session ==
    [isLoaded |-> isLoaded, isUnpacked |-> isUnpacked, isProcessed |-> isProcessed,
     lib |-> lib, alive |-> alive]

\* std::make_unique<LibRaw>(): an instance of its own for every object.  `file`
\* is the file whose imgdata the instance holds while a source is loaded.
NewLibRaw(file) ==
    [src |-> NoSource, stage |-> "none", cancel |-> FALSE, params |-> DefaultParams,
     file |-> file, version |-> DefaultVersion]

\* LibRawWrapper::LibRawWrapper, for the two objects of the script.
ConstructWith(file, version) ==
    /\ isLoaded = FALSE
    /\ isUnpacked = FALSE
    /\ isProcessed = FALSE
    /\ lib = [NewLibRaw(file) EXCEPT !.version = version]
    /\ heap = [a \in Addr |-> Free]
    /\ bufs = {}
    /\ held = {}
    /\ alive = TRUE
    /\ active = "idle"
    /\ last = Outcome("new", "object", NoError, <<>>, <<FALSE, FALSE, FALSE>>, "none", FALSE)
    /\ peer = [isLoaded |-> FALSE, isUnpacked |-> FALSE, isProcessed |-> FALSE,
               lib |-> [NewLibRaw(file) EXCEPT !.version = version], alive |-> TRUE]

Construct(file) == ConstructWith(file, DefaultVersion)

Init == Construct(FullFile)

\* The same, for any file the script can have.
InitMeta == \E file \in Files : Construct(file)

\* The same, for any version the library can have.
InitVersion == \E version \in LibVersions : ConstructWith(FullFile, version)

\* A guard that lets every call through.
CheckLoaded_Always == TRUE

\* LibRawWrapper::CheckLoaded: TRUE when the guard lets the call through.
CheckLoaded == isLoaded

\* What a guarded method does when CheckLoaded throws: return env.Null().
Rejected(op) ==
    /\ last' = Outcome(op, "null", NotLoadedError, <<>>, Flags, "none", FALSE)
    /\ UNCHANGED <<isLoaded, isUnpacked, isProcessed, lib, heap, bufs, held, alive, peer, active>>

\* open_file / open_buffer on *processor: on success the instance reads from the
\* new source, of which nothing is unpacked yet; on failure the library decides
\* whether what it held survives.  `stage` is how far the calls made on the
\* instance have brought the source it holds: "none", "opened", "unpacked"
\* (unpack returned success) or "processed" (dcraw_process returned success).
LibOpen(src, ret, keep) ==
    IF ret = LIBRAW_SUCCESS THEN [lib EXCEPT !.src = src, !.stage = "opened"]
    ELSE IF keep THEN lib
    ELSE [lib EXCEPT !.src = NoSource, !.stage = "none"]

\* The library reads its byte source in these calls.
ReadsSource == {"unpack", "unpack_thumb"}

\* The memory source still holds the bytes that were loaded.
SourceIntact == lib.src.kind # "buffer" \/ heap[lib.src.addr] = lib.src.content

Stale(calls) == (\E i \in DOMAIN calls : calls[i] \in ReadsSource) /\ ~SourceIntact

Unchanged == UNCHANGED <<isLoaded, isUnpacked, isProcessed, lib, heap, bufs, held, alive, peer, active>>

\* ---------------------------------------------------------- file operations
FileSource == [kind |-> "file", addr |-> 0, content |-> Free]

\* A load that leaves isProcessed as it was.
Load_KeepsProcessed(op, src, openCall, openPrefix, unpackPrefix) ==
    \E ret1 \in Codes :
        IF ret1 # LIBRAW_SUCCESS
        THEN \E keep \in BOOLEAN :
             /\ lib' = LibOpen(src, ret1, keep)
             /\ last' = Returned(ret1, Outcome(op, "null", LibError(openPrefix, ret1),
                                               <<openCall>>, Flags, "none", FALSE))
             /\ UNCHANGED <<isLoaded, isUnpacked, isProcessed, heap, bufs, held, alive, peer, active>>
        ELSE \E ret2 \in Codes :
             /\ lib' = IF ret2 = LIBRAW_SUCCESS
                       THEN [LibOpen(src, ret1, TRUE) EXCEPT !.stage = "unpacked"]
                       ELSE LibOpen(src, ret1, TRUE)
             /\ UNCHANGED <<heap, bufs, held, alive, peer, active, isProcessed>>
             /\ IF ret2 # LIBRAW_SUCCESS
                THEN /\ last' = Returned(ret2,
                                        Outcome(op, "null", LibError(unpackPrefix, ret2),
                                                <<openCall, "unpack">>, Flags, "none", FALSE))
                     /\ UNCHANGED <<isLoaded, isUnpacked>>
                ELSE /\ isLoaded' = TRUE
                     /\ isUnpacked' = TRUE
                     /\ last' = Returned(ret2,
                                        Outcome(op, "true", NoError, <<openCall, "unpack">>,
                                                Flags, "none", FALSE))

\* The shape shared by LoadFile and LoadBuffer after the argument check:
\* open, unpack, and the three flags when both succeeded.
Load(op, src, openCall, openPrefix, unpackPrefix) ==
    \E ret1 \in Codes :
        IF ret1 # LIBRAW_SUCCESS
        THEN \E keep \in BOOLEAN :
             /\ lib' = LibOpen(src, ret1, keep)
             /\ last' = Returned(ret1, Outcome(op, "null", LibError(openPrefix, ret1),
                                               <<openCall>>, Flags, "none", FALSE))
             /\ UNCHANGED <<isLoaded, isUnpacked, isProcessed, heap, bufs, held, alive, peer, active>>
        ELSE \E ret2 \in Codes :
             /\ lib' = IF ret2 = LIBRAW_SUCCESS
                       THEN [LibOpen(src, ret1, TRUE) EXCEPT !.stage = "unpacked"]
                       ELSE LibOpen(src, ret1, TRUE)
             /\ UNCHANGED <<heap, bufs, held, alive, peer, active>>
             /\ IF ret2 # LIBRAW_SUCCESS
                THEN /\ last' = Returned(ret2,
                                        Outcome(op, "null", LibError(unpackPrefix, ret2),
                                                <<openCall, "unpack">>, Flags, "none", FALSE))
                     /\ UNCHANGED <<isLoaded, isUnpacked, isProcessed>>
                ELSE /\ isLoaded' = TRUE
                     /\ isUnpacked' = TRUE
                     /\ isProcessed' = FALSE
                     /\ last' = Returned(ret2,
                                        Outcome(op, "true", NoError, <<openCall, "unpack">>,
                                                Flags, "none", FALSE))

\* LibRawWrapper::LoadFile
LoadFile ==
    /\ Idle
    /\ \E isString \in BOOLEAN :
        IF ~isString
        THEN /\ last' = Outcome("loadFile", "null", TypeError("Expected string filename"),
                                <<>>, Flags, "none", FALSE)
             /\ Unchanged
        ELSE Load("loadFile", FileSource, "open_file",
                  "Failed to open file: ", "Failed to unpack file: ")

\* LibRawWrapper::LoadBuffer.  The argument is a Buffer of the script (a cell of
\* bufs) or something that is not a Buffer (0).  open_buffer is given
\* buffer.Data(): the wrapper copies nothing and keeps no reference to the Buffer.
LoadBuffer ==
    /\ Idle
    /\ \E arg \in bufs \cup {0} :
        IF arg = 0
        THEN /\ last' = Outcome("loadBuffer", "null", TypeError("Expected Buffer"),
                                <<>>, Flags, "none", FALSE)
             /\ Unchanged
        ELSE Load("loadBuffer", [kind |-> "buffer", addr |-> arg, content |-> heap[arg]],
                  "open_buffer", "Failed to open buffer: ", "Failed to unpack buffer: ")

\* LibRaw::recycle as the wrapper uses it: the instance lets go of its source.
Recycle == [lib EXCEPT !.src = NoSource, !.stage = "none"]

\* A close that clears isLoaded alone.
Close_ClearsLoadedOnly ==
    /\ Idle
    /\ IF isLoaded
       THEN /\ lib' = Recycle
            /\ isLoaded' = FALSE
            /\ last' = Outcome("close", "true", NoError, <<"recycle">>, Flags, "none", FALSE)
            /\ UNCHANGED <<isUnpacked, isProcessed, heap, bufs, held, alive, peer, active>>
       ELSE /\ last' = Outcome("close", "true", NoError, <<>>, Flags, "none", FALSE)
            /\ Unchanged

\* LibRawWrapper::Close
Close ==
    /\ Idle
    /\ IF isLoaded
       THEN /\ lib' = Recycle
            /\ isLoaded' = FALSE
            /\ isUnpacked' = FALSE
            /\ isProcessed' = FALSE
            /\ last' = Outcome("close", "true", NoError, <<"recycle">>, Flags, "none", FALSE)
            /\ UNCHANGED <<heap, bufs, held, alive, peer, active>>
       ELSE /\ last' = Outcome("close", "true", NoError, <<>>, Flags, "none", FALSE)
            /\ Unchanged

\* A destructor that recycles whether or not something is loaded.
Destroy_RecyclesAlways ==
    /\ Idle
    /\ alive' = FALSE
    /\ lib' = Recycle
    /\ last' = Outcome("destroy", "none", NoError, <<"recycle">>, Flags, "none", FALSE)
    /\ UNCHANGED <<isLoaded, isUnpacked, isProcessed, heap, bufs, held, active, peer>>

\* LibRawWrapper::~LibRawWrapper
Destroy ==
    /\ Idle
    /\ alive' = FALSE
    /\ lib' = IF isLoaded THEN Recycle ELSE lib
    /\ last' = Outcome("destroy", "none", NoError,
                       IF isLoaded THEN <<"recycle">> ELSE <<>>, Flags, "none", FALSE)
    /\ UNCHANGED <<isLoaded, isUnpacked, isProcessed, heap, bufs, held, active, peer>>

\* ------------------------------------------------------ guarded pass-throughs
Ok == {LIBRAW_SUCCESS}

\* A pass-through that reports success whatever the library returned.
PassThrough_Swallow(op, call, codes, okResult, prefix) ==
    /\ Idle
    /\ IF ~CheckLoaded
       THEN Rejected(op)
       ELSE \E ret \in codes :
            /\ last' = Returned(IF codes = Ok THEN "none" ELSE ret,
                           Outcome(op, okResult, NoError, <<call>>, Flags, "none",
                                   Stale(<<call>>)))
            /\ Unchanged

\* The shape shared by the guarded methods that make one library call and
\* change nothing in the wrapper: CheckLoaded, the call, the status test.
\* `codes` is what the call can return ({LIBRAW_SUCCESS} for a call without a
\* status), okResult what the method returns when it succeeds.
PassThrough(op, call, codes, okResult, prefix) ==
    /\ Idle
    /\ IF ~CheckLoaded
       THEN Rejected(op)
       ELSE \E ret \in codes :
            /\ last' = Returned(IF codes = Ok THEN "none" ELSE ret,
                           Outcome(op,
                               IF ret = LIBRAW_SUCCESS THEN okResult ELSE "null",
                               IF ret = LIBRAW_SUCCESS THEN NoError ELSE LibError(prefix, ret),
                               <<call>>, Flags, "none", Stale(<<call>>)))
            /\ Unchanged

\* The same with an argument check between the guard and the call.
PassThroughArgs(op, call, codes, okResult, prefix, typeMsg) ==
    /\ Idle
    /\ IF ~CheckLoaded
       THEN Rejected(op)
       ELSE \E valid \in BOOLEAN :
            IF ~valid
            THEN /\ last' = Outcome(op, "null", TypeError(typeMsg), <<>>, Flags, "none", FALSE)
                 /\ Unchanged
            ELSE \E ret \in codes :
                 /\ last' = Returned(IF codes = Ok THEN "none" ELSE ret,
                                Outcome(op,
                                    IF ret = LIBRAW_SUCCESS THEN okResult ELSE "null",
                                    IF ret = LIBRAW_SUCCESS THEN NoError
                                    ELSE LibError(prefix, ret),
                                    <<call>>, Flags, "none", Stale(<<call>>)))
                 /\ Unchanged

\* -------------------------------------------------- metadata & information
\* Keys that are set whenever the number is not 0.
ObjectKeys_NonZero(meta, strings, positives, always) ==
    {kf[1] : kf \in {x \in strings : meta.str[x[2]] # ""}}
    \cup {kf[1] : kf \in {x \in positives : meta.num[x[2]] # 0}}
    \cup {kf[1] : kf \in always}

\* The keys of a getter's object: `strings` are set when the character array is
\* not empty, `positives` when the number is greater than 0, `always` always.
\* Each is a set of <<key, field>>.
ObjectKeys(meta, strings, positives, always) ==
    {kf[1] : kf \in {x \in strings : meta.str[x[2]] # ""}}
    \cup {kf[1] : kf \in {x \in positives : meta.num[x[2]] > 0}}
    \cup {kf[1] : kf \in always}

\* A guarded getter that builds its object from imgdata and cannot fail.
Getter(op, keys) ==
    /\ Idle
    /\ IF ~CheckLoaded
       THEN Rejected(op)
       ELSE /\ last' = [Outcome(op, "object", NoError, <<"imgdata">>, Flags, "none", FALSE)
                           EXCEPT !.keys = keys]
            /\ Unchanged

\* The keys LibRawWrapper::GetMetadata sets (lines 191-237).
GetMetadataKeys(meta) ==
    ObjectKeys(meta,
        {<<"make", "idata.make">>, <<"model", "idata.model">>,
         <<"software", "idata.software">>},
        {<<"iso", "other.iso_speed">>, <<"shutterSpeed", "other.shutter">>,
         <<"aperture", "other.aperture">>, <<"focalLength", "other.focal_len">>,
         <<"timestamp", "other.timestamp">>},
        {<<"width", "sizes.width">>, <<"height", "sizes.height">>,
         <<"rawWidth", "sizes.raw_width">>, <<"rawHeight", "sizes.raw_height">>,
         <<"colors", "idata.colors">>, <<"filters", "idata.filters">>})

\* The keys LibRawWrapper::GetLensInfo sets (lines 325-366).
GetLensInfoKeys(meta) ==
    ObjectKeys(meta,
        {<<"lensName", "lens.Lens">>, <<"lensMake", "lens.LensMake">>,
         <<"lensSerial", "lens.LensSerial">>,
         <<"internalLensSerial", "lens.InternalLensSerial">>},
        {<<"minFocal", "lens.MinFocal">>, <<"maxFocal", "lens.MaxFocal">>,
         <<"maxAp4MinFocal", "lens.MaxAp4MinFocal">>,
         <<"maxAp4MaxFocal", "lens.MaxAp4MaxFocal">>,
         <<"exifMaxAp", "lens.EXIF_MaxAp">>,
         <<"focalLengthIn35mmFormat", "lens.FocalLengthIn35mmFormat">>},
        {})

GetMetadata         == Getter("getMetadata", GetMetadataKeys(Imgdata(lib.file)))
GetImageSize        == PassThrough("getImageSize", "imgdata", Ok, "object", "")
GetAdvancedMetadata == PassThrough("getAdvancedMetadata", "imgdata", Ok, "object", "")
GetLensInfo         == Getter("getLensInfo", GetLensInfoKeys(Imgdata(lib.file)))
GetColorInfo        == PassThrough("getColorInfo", "imgdata", Ok, "object", "")

\* ---------------------------------------------------------- image processing
UnpackThumbnail ==
    PassThrough("unpackThumbnail", "unpack_thumb", Codes, "true", "Failed to unpack thumbnail: ")
SubtractBlack ==
    PassThrough("subtractBlack", "subtract_black", Codes, "true", "Failed to subtract black: ")
Raw2Image ==
    PassThrough("raw2Image", "raw2image", Codes, "true", "Failed to convert raw to image: ")
AdjustMaximum ==
    PassThrough("adjustMaximum", "adjust_maximum", Codes, "true", "Failed to adjust maximum: ")
Raw2ImageEx ==
    PassThrough("raw2ImageEx", "raw2image_ex", Codes, "true", "Failed to convert raw to image: ")
AdjustSizesInfoOnly ==
    PassThrough("adjustSizesInfoOnly", "adjust_sizes_info_only", Codes, "true",
                "Failed to adjust sizes: ")
FreeImage         == PassThrough("freeImage", "free_image", Ok, "true", "")
ConvertFloatToInt == PassThrough("convertFloatToInt", "convertFloatToInt", Ok, "true", "")

\* LibRawWrapper::ProcessImage, up to the moment dcraw_process is entered.
ProcessImage ==
    /\ Idle
    /\ IF ~CheckLoaded
       THEN Rejected("processImage")
       ELSE /\ active' = "processImage"
            /\ last' = Outcome("processImage", "pending", NoError, <<"dcraw_process">>,
                               Flags, "none", FALSE)
            /\ UNCHANGED <<isLoaded, isUnpacked, isProcessed, lib, heap, bufs, held, alive, peer>>

\* A return that marks the session processed whatever dcraw_process returned.
ProcessImageReturn_MarksAlways ==
    /\ alive
    /\ active = "processImage"
    /\ active' = "idle"
    /\ isProcessed' = TRUE
    /\ \E ret \in Codes :
        IF ret # LIBRAW_SUCCESS
        THEN /\ last' = [last EXCEPT !.result = "null", !.ret = ret,
                                     !.error = LibError("Failed to process image: ", ret)]
             /\ UNCHANGED lib
        ELSE /\ last' = [last EXCEPT !.result = "true", !.ret = ret]
             /\ lib' = [lib EXCEPT !.stage = "processed"]
    /\ UNCHANGED <<isLoaded, isUnpacked, heap, bufs, held, alive, peer>>

\* LibRawWrapper::ProcessImage, from the return of dcraw_process.
ProcessImageReturn ==
    /\ alive
    /\ active = "processImage"
    /\ active' = "idle"
    /\ \E ret \in Codes :
        IF ret # LIBRAW_SUCCESS
        THEN /\ last' = [last EXCEPT !.result = "null", !.ret = ret,
                                     !.error = LibError("Failed to process image: ", ret)]
             /\ UNCHANGED <<isProcessed, lib>>
        ELSE /\ isProcessed' = TRUE
             /\ lib' = [lib EXCEPT !.stage = "processed"]
             /\ last' = [last EXCEPT !.result = "true", !.ret = ret]
    /\ UNCHANGED <<isLoaded, isUnpacked, heap, bufs, held, alive, peer>>

\* libraw_wrapper_new.cpp, LibRawWrapper::CheckLoaded: a void function.  With
\* nothing loaded it leaves the `No file loaded` exception pending and returns
\* to the method, which goes on.  The value is the exception left pending.
CheckLoadedNew(loaded) == IF loaded THEN NoError ELSE NotLoadedError

\* libraw_wrapper_new.cpp, LibRawWrapper::ProcessImage on an object whose flags
\* are `flags`, when dcraw_process returns `ret`: the library calls it makes,
\* the error the script gets (the exception CheckLoaded left pending, which a
\* later throw does not replace) and the flags it ends with.
ProcessImageNew(flags, ret) ==
    LET pending == CheckLoadedNew(flags[1]) IN
    [calls |-> <<"dcraw_process">>,
     error |-> IF pending # NoError THEN pending
               ELSE IF ret # LIBRAW_SUCCESS
                    THEN LibError("Failed to process image: ", ret)
                    ELSE NoError,
     flags |-> IF ret = LIBRAW_SUCCESS THEN <<flags[1], flags[2], TRUE>> ELSE flags]

\* LibRawWrapper::Unpack, up to the moment the library's unpack is entered.
Unpack ==
    /\ Idle
    /\ IF ~CheckLoaded
       THEN Rejected("unpack")
       ELSE /\ active' = "unpack"
            /\ last' = Outcome("unpack", "pending", NoError, <<"unpack">>,
                               Flags, "none", Stale(<<"unpack">>))
            /\ UNCHANGED <<isLoaded, isUnpacked, isProcessed, lib, heap, bufs, held, alive, peer>>

\* LibRawWrapper::Unpack, from the return of the library's unpack.
UnpackReturn ==
    /\ alive
    /\ active = "unpack"
    /\ active' = "idle"
    /\ \E ret \in Codes :
        /\ last' = [last EXCEPT
                       !.ret    = ret,
                       !.result = IF ret = LIBRAW_SUCCESS THEN "true" ELSE "null",
                       !.error  = IF ret = LIBRAW_SUCCESS THEN NoError
                                  ELSE LibError("Failed to unpack: ", ret)]
        /\ lib' = IF ret = LIBRAW_SUCCESS /\ lib.stage = "opened"
                  THEN [lib EXCEPT !.stage = "unpacked"] ELSE lib
    /\ UNCHANGED <<isLoaded, isUnpacked, isProcessed, heap, bufs, held, alive, peer>>

\* ------------------------------------------------------ memory image creation
\* The libraw_processed_image_t the library allocates: its header and the cell
\* holding its pixel bytes (data = 0 stands for a null pointer).
LibImage(type, cell) ==
    [type |-> type, height |-> 1, width |-> 1, colors |-> 3, bits |-> 8,
     data_size |-> 3, data |-> cell]

\* An image object that wraps the library's own bytes instead of copying them.
CreateImageDataObject_NoCopy(h, img) ==
    [heap |-> h, obj |-> IF img.data = 0 THEN [img EXCEPT !.type = "empty"] ELSE img]

\* LibRawWrapper::CreateImageDataObject: the object handed to the script.
\* Buffer::Copy allocates a Buffer of the script's heap and copies the bytes in.
CreateImageDataObject(h, img) ==
    IF img.data = 0
    THEN [heap |-> h, obj |-> [img EXCEPT !.type = "empty"]]
    ELSE LET cell == Alloc(h) IN
         [heap |-> [h EXCEPT ![cell] = h[img.data]],
          obj  |-> [img EXCEPT !.data = cell]]

\* LibRaw::dcraw_clear_mem: free the image.
dcraw_clear_mem(h, img) == [h EXCEPT ![img.data] = Free]

\* The shape shared by CreateMemoryImage and CreateMemoryThumbnail.  The library
\* returns a pointer (null, or a fresh image with some bytes) and an error code,
\* in any combination; it has room for an image only while two cells are free
\* (the image and the copy made of it).
CreateMemory(op, call, type, prefix) ==
    /\ Idle
    /\ IF ~CheckLoaded
       THEN Rejected(op)
       ELSE /\ UNCHANGED <<isLoaded, isUnpacked, isProcessed, lib, bufs, alive, peer, active>>
            /\ \E nonNull \in BOOLEAN, errcode \in Codes :
                IF ~nonNull
                THEN /\ last' = Returned(errcode, Outcome(op, "null",
                                        IF errcode # LIBRAW_SUCCESS
                                        THEN LibError(prefix, errcode)
                                        ELSE <<"Error", prefix, "Unknown error">>,
                                        <<call>>, Flags, "none", FALSE))
                     /\ UNCHANGED <<heap, held>>
                ELSE /\ Cardinality(FreeCells(heap)) >= 2
                     /\ LET img == LibImage(type, Alloc(heap)) IN
                        IF errcode # LIBRAW_SUCCESS
                        THEN /\ last' = Returned(errcode,
                                                Outcome(op, "null", LibError(prefix, errcode),
                                                        <<call>>, Flags, "none", FALSE))
                             /\ heap' = [heap EXCEPT ![img.data] = Junk]
                             /\ UNCHANGED held
                        ELSE \E bytes \in Bytes :
                             LET made == CreateImageDataObject(
                                             [heap EXCEPT ![img.data] = bytes], img)
                             IN
                             /\ last' = Returned(errcode,
                                                Outcome(op, "object", NoError,
                                                        <<call, "dcraw_clear_mem">>, Flags,
                                                        "none", FALSE))
                             /\ heap' = dcraw_clear_mem(made.heap, img)
                             /\ held' = held \cup {[obj |-> made.obj, snapshot |-> bytes]}

CreateMemoryImage ==
    CreateMemory("createMemoryImage", "dcraw_make_mem_image", "bitmap",
                 "Failed to create memory image: ")
CreateMemoryThumbnail ==
    CreateMemory("createMemoryThumbnail", "dcraw_make_mem_thumb", "jpeg",
                 "Failed to create memory thumbnail: ")

\* -------------------------------------------------------------- file writers
\* LibRaw::dcraw_ppm_tiff_writer writes the container imgdata.params.output_tiff
\* selects ("Set output format to TIFF", line 628).
Container(params) == IF params.output_tiff # 0 THEN "TIFF" ELSE "PPM"

\* A writer that sets output_tiff before it looks at its argument.
WriteFile_SetsTiffFirst(op, setTiff, prefix) ==
    /\ Idle
    /\ IF ~CheckLoaded
       THEN Rejected(op)
       ELSE \E isString \in BOOLEAN :
            LET params == IF setTiff THEN [lib.params EXCEPT !.output_tiff = 1]
                          ELSE lib.params
                calls  == IF setTiff
                          THEN <<"imgdata.params.output_tiff", "dcraw_ppm_tiff_writer">>
                          ELSE <<"dcraw_ppm_tiff_writer">>
            IN
            /\ lib' = [lib EXCEPT !.params = params]
            /\ UNCHANGED <<isLoaded, isUnpacked, isProcessed, heap, bufs, held, alive, peer, active>>
            /\ IF ~isString
               THEN last' = Outcome(op, "null", TypeError("Expected string filename"),
                                    <<>>, Flags, "none", FALSE)
               ELSE \E ret \in Codes :
                    last' = Returned(ret,
                                IF ret # LIBRAW_SUCCESS
                                THEN Outcome(op, "null", LibError(prefix, ret), calls, Flags,
                                             "none", FALSE)
                                ELSE Outcome(op, "true", NoError, calls, Flags,
                                             Container(params), FALSE))

\* The shape shared by WritePPM and WriteTIFF; setTiff is WriteTIFF's assignment
\* processor->imgdata.params.output_tiff = 1.
WriteFile(op, setTiff, prefix) ==
    /\ Idle
    /\ IF ~CheckLoaded
       THEN Rejected(op)
       ELSE \E isString \in BOOLEAN :
            IF ~isString
            THEN /\ last' = Outcome(op, "null", TypeError("Expected string filename"),
                                    <<>>, Flags, "none", FALSE)
                 /\ Unchanged
            ELSE \E ret \in Codes :
                 LET params == IF setTiff THEN [lib.params EXCEPT !.output_tiff = 1]
                               ELSE lib.params
                     calls  == IF setTiff
                               THEN <<"imgdata.params.output_tiff", "dcraw_ppm_tiff_writer">>
                               ELSE <<"dcraw_ppm_tiff_writer">>
                 IN
                 /\ lib' = [lib EXCEPT !.params = params]
                 /\ last' = Returned(ret,
                                IF ret # LIBRAW_SUCCESS
                                THEN Outcome(op, "null", LibError(prefix, ret), calls, Flags,
                                             "none", FALSE)
                                ELSE Outcome(op, "true", NoError, calls, Flags,
                                             Container(params), FALSE))
                 /\ UNCHANGED <<isLoaded, isUnpacked, isProcessed, heap, bufs, held, alive, peer, active>>

WritePPM  == WriteFile("writePPM", FALSE, "Failed to write PPM file: ")
WriteTIFF == WriteFile("writeTIFF", TRUE, "Failed to write TIFF file: ")
WriteThumbnail ==
    PassThroughArgs("writeThumbnail", "dcraw_thumb_writer", Codes, "true",
                    "Failed to write thumbnail: ", "Expected string filename")

\* -------------------------------------------------- configuration & settings
\* A JavaScript number is counted in quarters (Number(6) is 1.5), so that the
\* three conversions differ as they do in the code: Int32Value truncates to a
\* whole number (an int field holds whole numbers), FloatValue keeps the halves
\* (a float has fewer digits than a double), DoubleValue keeps everything.
\* Every number TLC can represent lies inside the 32-bit range, so the
\* reduction modulo 2^32 of Int32Value never applies.
Int32Value(q) == IF q >= 0 THEN q \div 4 ELSE -((-q) \div 4)
FloatValue(q) == IF q >= 0 THEN q - (q % 2) ELSE -((-q) - ((-q) % 2))
DoubleValue(q) == q

\* A loop that writes all four entries, 0 where the array has none.
SetUserMul_All(old, a) ==
    [i \in 1..4 |-> IF i <= Len(a) THEN FloatValue(a[i]) ELSE 0]

\* The loop over user_mul: entries 0..min(4, length)-1 are overwritten.
SetUserMul(old, a) ==
    [i \in 1..4 |-> IF i <= Len(a) THEN FloatValue(a[i]) ELSE old[i]]

\* The assignments of LibRawWrapper::SetOutputParams (lines 683-738).
ApplyParams(old, o) ==
    [gamm           |-> IF o.gamma.t = "array" /\ Len(o.gamma.a) >= 2
                        THEN <<DoubleValue(o.gamma.a[1]), DoubleValue(o.gamma.a[2])>>
                        ELSE old.gamm,
     bright         |-> IF o.bright.t = "number" THEN FloatValue(o.bright.n) ELSE old.bright,
     output_color   |-> IF o.output_color.t = "number" THEN Int32Value(o.output_color.n)
                        ELSE old.output_color,
     output_bps     |-> IF o.output_bps.t = "number" THEN Int32Value(o.output_bps.n)
                        ELSE old.output_bps,
     user_mul       |-> IF o.user_mul.t = "array" THEN SetUserMul(old.user_mul, o.user_mul.a)
                        ELSE old.user_mul,
     no_auto_bright |-> IF o.no_auto_bright.t = "boolean"
                        THEN (IF o.no_auto_bright.b THEN 1 ELSE 0) ELSE old.no_auto_bright,
     highlight      |-> IF o.highlight.t = "number" THEN Int32Value(o.highlight.n)
                        ELSE old.highlight,
     output_tiff    |-> IF o.output_tiff.t = "boolean"
                        THEN (IF o.output_tiff.b THEN 1 ELSE 0) ELSE old.output_tiff]

\* The argument objects the script passes to setOutputParams.
ParamObjects ==
    { NoParams,
      [NoParams EXCEPT !.output_tiff = Boolean(TRUE)],
      [NoParams EXCEPT !.output_tiff = Boolean(FALSE)],
      [NoParams EXCEPT !.output_tiff = Number(4)] }

\* The argument objects of a script that tries every option: values a float or
\* an int cannot hold (7 and 34 quarters), values outside the library's
\* options, wrong types, short and long arrays, several fields at once.
AllParamObjects ==
    ParamObjects \cup
    { [NoParams EXCEPT !.bright = Number(7)],
      [NoParams EXCEPT !.bright = Boolean(TRUE)],
      [NoParams EXCEPT !.output_bps = Number(64)],
      [NoParams EXCEPT !.output_bps = Number(34)],
      [NoParams EXCEPT !.output_bps = Number(28)],
      [NoParams EXCEPT !.output_color = Number(-4)],
      [NoParams EXCEPT !.highlight = Number(40)],
      [NoParams EXCEPT !.gamma = Array(<<4, 16>>)],
      [NoParams EXCEPT !.gamma = Array(<<8>>)],
      [NoParams EXCEPT !.gamma = Number(4)],
      [NoParams EXCEPT !.user_mul = Array(<<8, 8>>)],
      [NoParams EXCEPT !.user_mul = Array(<<4, 4, 4, 7, 12>>)],
      [NoParams EXCEPT !.no_auto_bright = Boolean(TRUE)],
      [NoParams EXCEPT !.no_auto_bright = Number(4)],
      [NoParams EXCEPT !.bright = Number(4), !.output_bps = Number(32),
                       !.no_auto_bright = Boolean(FALSE), !.output_color = Number(4),
                       !.highlight = Number(0)] }

\* LibRawWrapper::SetOutputParams, for a script whose argument objects are
\* `objects`.
SetOutputParamsOf(objects) ==
    /\ Idle
    /\ IF ~CheckLoaded
       THEN Rejected("setOutputParams")
       ELSE \E isObject \in BOOLEAN :
            IF ~isObject
            THEN /\ last' = Outcome("setOutputParams", "null",
                                    TypeError("Expected object with output parameters"),
                                    <<>>, Flags, "none", FALSE)
                 /\ Unchanged
            ELSE \E o \in objects :
                 /\ lib' = [lib EXCEPT !.params = ApplyParams(lib.params, o)]
                 /\ last' = [Outcome("setOutputParams", "true", NoError,
                                     <<"imgdata.params">>, Flags, "none", FALSE)
                             EXCEPT !.arg = <<o>>]
                 /\ UNCHANGED <<isLoaded, isUnpacked, isProcessed, heap, bufs, held, alive, peer, active>>

\* LibRawWrapper::SetOutputParams
SetOutputParams == SetOutputParamsOf(ParamObjects)
SetOutputParamsAny == SetOutputParamsOf(AllParamObjects)

\* The object LibRawWrapper::GetOutputParams builds (lines 749-772): an int
\* field as a number (Number counts quarters), the two flags as booleans.
GetOutputParamsObject(params) ==
    [gamma          |-> Array(<<params.gamm[1], params.gamm[2]>>),
     bright         |-> Number(params.bright),
     output_color   |-> Number(4 * params.output_color),
     output_bps     |-> Number(4 * params.output_bps),
     user_mul       |-> Array([i \in 1..4 |-> params.user_mul[i]]),
     no_auto_bright |-> Boolean(params.no_auto_bright # 0),
     highlight      |-> Number(4 * params.highlight),
     output_tiff    |-> Boolean(params.output_tiff # 0)]

\* LibRawWrapper::GetOutputParams
GetOutputParams ==
    /\ Idle
    /\ IF ~CheckLoaded
       THEN Rejected("getOutputParams")
       ELSE /\ last' = [Outcome("getOutputParams", "object", NoError, <<"imgdata.params">>,
                                Flags, "none", FALSE)
                        EXCEPT !.object = <<GetOutputParamsObject(lib.params)>>]
            /\ Unchanged

\* --------------------------------------------------------- utility functions
IsFloatingPoint    == PassThrough("isFloatingPoint", "is_floating_point", Ok, "boolean", "")
IsFujiRotated      == PassThrough("isFujiRotated", "is_fuji_rotated", Ok, "boolean", "")
IsSRAW             == PassThrough("isSRAW", "is_sraw", Ok, "boolean", "")
IsJPEGThumb        == PassThrough("isJPEGThumb", "is_jpeg_thumb", Ok, "boolean", "")
ErrorCount         == PassThrough("errorCount", "error_count", Ok, "number", "")
IsNikonSRAW        == PassThrough("isNikonSRAW", "is_nikon_sraw", Ok, "boolean", "")
IsCoolscanNEF      == PassThrough("isCoolscanNEF", "is_coolscan_nef", Ok, "boolean", "")
HaveFPData         == PassThrough("haveFPData", "have_fpdata", Ok, "boolean", "")
SrawMidpoint       == PassThrough("srawMidpoint", "sraw_midpoint", Ok, "number", "")
ThumbOK            == PassThrough("thumbOK", "thumbOK", Ok, "number", "")
UnpackFunctionName == PassThrough("unpackFunctionName", "unpack_function_name", Ok, "string", "")
GetDecoderInfo ==
    PassThrough("getDecoderInfo", "get_decoder_info", Codes, "object",
                "Failed to get decoder info: ")
GetMemImageFormat  == PassThrough("getMemImageFormat", "get_mem_image_format", Ok, "object", "")
GetColorAt ==
    PassThroughArgs("getColorAt", "COLOR", Ok, "number", "", "Expected (row, col)")

\* LibRawWrapper::CopyMemImage: the library writes the image into the Buffer the
\* script passes (arg = 0: the arguments are not (Buffer, number, boolean)).
CopyMemImage ==
    /\ Idle
    /\ IF ~CheckLoaded
       THEN Rejected("copyMemImage")
       ELSE \E arg \in bufs \cup {0} :
            IF arg = 0
            THEN /\ last' = Outcome("copyMemImage", "null",
                                    TypeError("Expected (buffer, stride, bgr)"),
                                    <<>>, Flags, "none", FALSE)
                 /\ Unchanged
            ELSE /\ UNCHANGED <<isLoaded, isUnpacked, isProcessed, lib, bufs, held, alive, peer, active>>
                 /\ \E ret \in Codes :
                     IF ret # LIBRAW_SUCCESS
                     THEN /\ last' = Returned(ret, Outcome("copyMemImage", "null",
                                             LibError("Failed to copy memory image: ", ret),
                                             <<"copy_mem_image">>, Flags, "none", FALSE))
                          /\ UNCHANGED heap
                     ELSE /\ last' = Returned(ret, Outcome("copyMemImage", "true", NoError,
                                             <<"copy_mem_image">>, Flags, "none", FALSE))
                          /\ \E bytes \in Bytes : heap' = [heap EXCEPT ![arg] = bytes]

\* ------------------------------------------------------ cancellation support
\* A cancel flag kept in one place for all objects.
SetCancelFlag_Shared ==
    /\ Idle
    /\ lib' = [lib EXCEPT !.cancel = TRUE]
    /\ peer' = [peer EXCEPT !.lib.cancel = TRUE]
    /\ last' = Outcome("setCancelFlag", "true", NoError, <<"setCancelFlag">>, Flags,
                       "none", FALSE)
    /\ UNCHANGED <<isLoaded, isUnpacked, isProcessed, heap, bufs, held, alive, active>>

\* LibRawWrapper::SetCancelFlag
SetCancelFlag ==
    /\ Idle
    /\ lib' = [lib EXCEPT !.cancel = TRUE]
    /\ last' = Outcome("setCancelFlag", "true", NoError, <<"setCancelFlag">>, Flags,
                       "none", FALSE)
    /\ UNCHANGED <<isLoaded, isUnpacked, isProcessed, heap, bufs, held, alive, peer, active>>

\* A clearCancelFlag behind the state guard.
ClearCancelFlag_Guarded ==
    /\ Idle
    /\ IF ~CheckLoaded
       THEN Rejected("clearCancelFlag")
       ELSE /\ lib' = [lib EXCEPT !.cancel = FALSE]
            /\ last' = Outcome("clearCancelFlag", "true", NoError, <<"clearCancelFlag">>,
                               Flags, "none", FALSE)
            /\ UNCHANGED <<isLoaded, isUnpacked, isProcessed, heap, bufs, held, alive, peer, active>>

\* LibRawWrapper::ClearCancelFlag
ClearCancelFlag ==
    /\ Idle
    /\ lib' = [lib EXCEPT !.cancel = FALSE]
    /\ last' = Outcome("clearCancelFlag", "true", NoError, <<"clearCancelFlag">>, Flags,
                       "none", FALSE)
    /\ UNCHANGED <<isLoaded, isUnpacked, isProcessed, heap, bufs, held, alive, peer, active>>

\* ------------------------------------------------ version and error text
\* The shape of an instance method that has no state guard and cannot fail.
Unguarded(op, calls, result, value) ==
    /\ Idle
    /\ last' = [Outcome(op, result, NoError, calls, Flags, "none", FALSE)
                EXCEPT !.object = value]
    /\ Unchanged

\* The shape of a static method: it needs no object.
Static(op, call, result) ==
    /\ active = "idle"
    /\ last' = Outcome(op, result, NoError, <<call>>, Flags, "none", FALSE)
    /\ Unchanged

\* LibRawWrapper::Version
Version == Unguarded("version", <<"version">>, "string", <<>>)

\* A decoding that forgets the modulo in minor.
VersionNumberArray_NoModulo(versionNum) ==
    <<versionNum \div 10000, versionNum \div 100, versionNum % 100>>

\* The decoding in LibRawWrapper::VersionNumber (lines 1162-1164): major, minor,
\* patch.  versionNum is never negative here, where C's / and % are \div and %.
VersionNumberArray(versionNum) ==
    <<versionNum \div 10000, (versionNum % 10000) \div 100, versionNum % 100>>

\* LibRawWrapper::VersionNumber
VersionNumber ==
    Unguarded("versionNumber", <<"versionNumber">>, "array",
              <<Array(VersionNumberArray(versionNumber(lib.version)))>>)

\* A getLastError that reports the error of the call before it.
GetLastError_Remembers ==
    Unguarded("getLastError", <<>>, "string",
              <<String(IF last.error = NoError THEN "No error information available"
                       ELSE last.error[Len(last.error)])>>)

\* LibRawWrapper::GetLastError
GetLastError ==
    Unguarded("getLastError", <<>>, "string", <<String("No error information available")>>)

\* The static methods.
GetVersion      == Static("getVersion", "LibRaw::version", "string")
GetCapabilities == Static("getCapabilities", "LibRaw::capabilities", "number")
GetCameraList   == Static("getCameraList", "LibRaw::cameraList", "array")
GetCameraCount  == Static("getCameraCount", "LibRaw::cameraCount", "number")

\* ------------------------------------------------------ the calling script
\* The script turns to its other LibRawWrapper object: the members of the two
\* objects (header lines 102-106) change places, nothing else does.
Swap ==
    /\ active = "idle"
    /\ peer' = Session
    /\ isLoaded' = peer.isLoaded
    /\ isUnpacked' = peer.isUnpacked
    /\ isProcessed' = peer.isProcessed
    /\ lib' = peer.lib
    /\ alive' = peer.alive
    /\ UNCHANGED <<heap, bufs, held, active, last>>

\* The script reads a RAW file into a new Buffer.
NewBuffer ==
    /\ active = "idle"
    /\ FreeCells(heap) # {}
    /\ LET cell == Alloc(heap) IN
        /\ heap' = [heap EXCEPT ![cell] = Raw]
        /\ bufs' = bufs \cup {cell}
    /\ UNCHANGED <<isLoaded, isUnpacked, isProcessed, lib, held, alive, peer, active, last>>

\* The script drops every reference it has to a Buffer and the collector frees
\* it: nothing in the wrapper refers to the Buffer (libraw_wrapper.h:102-106).
ReleaseBuffer ==
    /\ active = "idle"
    /\ \E cell \in bufs :
        /\ heap' = [heap EXCEPT ![cell] = Free]
        /\ bufs' = bufs \ {cell}
    /\ UNCHANGED <<isLoaded, isUnpacked, isProcessed, lib, held, alive, peer, active, last>>

\* The script drops an image object it was given.
DropImage ==
    /\ active = "idle"
    /\ \E im \in held :
        /\ heap' = [heap EXCEPT ![im.obj.data] = Free]
        /\ held' = held \ {im}
    /\ UNCHANGED <<isLoaded, isUnpacked, isProcessed, lib, bufs, alive, peer, active, last>>

\* The methods of the wrapper.
Method ==
    \/ LoadFile \/ LoadBuffer \/ Close \/ Destroy
    \/ GetMetadata \/ GetImageSize \/ GetAdvancedMetadata \/ GetLensInfo \/ GetColorInfo
    \/ UnpackThumbnail \/ ProcessImage \/ ProcessImageReturn \/ SubtractBlack
    \/ Raw2Image \/ AdjustMaximum
    \/ CreateMemoryImage \/ CreateMemoryThumbnail
    \/ WritePPM \/ WriteTIFF \/ WriteThumbnail
    \/ SetOutputParams \/ GetOutputParams
    \/ IsFloatingPoint \/ IsFujiRotated \/ IsSRAW \/ IsJPEGThumb \/ ErrorCount
    \/ IsNikonSRAW \/ IsCoolscanNEF \/ HaveFPData \/ SrawMidpoint \/ ThumbOK
    \/ UnpackFunctionName \/ GetDecoderInfo
    \/ Unpack \/ UnpackReturn \/ Raw2ImageEx \/ AdjustSizesInfoOnly \/ FreeImage
    \/ ConvertFloatToInt
    \/ GetMemImageFormat \/ CopyMemImage \/ GetColorAt
    \/ SetCancelFlag \/ ClearCancelFlag
    \/ Version \/ VersionNumber \/ GetLastError
    \/ GetVersion \/ GetCapabilities \/ GetCameraList \/ GetCameraCount

\* The session: every method, called by a script that works with files.
Next == Method \/ DropImage

Spec == Init /\ [][Next]_vars

\* Memory: the methods that open a source, run the library on it or hand out
\* images, called by a script that also lets go of its Buffers.
NextMem ==
    \/ LoadFile \/ LoadBuffer \/ Close \/ Destroy
    \/ ProcessImage \/ ProcessImageReturn \/ Unpack \/ UnpackReturn
    \/ UnpackThumbnail \/ FreeImage
    \/ CreateMemoryImage \/ CreateMemoryThumbnail \/ CopyMemImage
    \/ NewBuffer \/ ReleaseBuffer \/ DropImage

SpecMem == Init /\ [][NextMem]_vars

\* Images: the methods that open a source, run the library on it or hand out
\* images, called by a script that works with files and keeps or drops the
\* images it is given.
NextImg ==
    \/ LoadFile \/ Close \/ Destroy
    \/ ProcessImage \/ ProcessImageReturn \/ Unpack \/ UnpackReturn
    \/ UnpackThumbnail \/ FreeImage
    \/ CreateMemoryImage \/ CreateMemoryThumbnail
    \/ DropImage

SpecImg == Init /\ [][NextImg]_vars

\* Metadata: a file of any content, loaded, read and closed.
NextMeta == LoadFile \/ Close \/ GetMetadata \/ GetLensInfo

SpecMeta == InitMeta /\ [][NextMeta]_vars

\* Output parameters: a script that tries every option on a file it loads.
NextParams == LoadFile \/ Close \/ SetOutputParamsAny \/ GetOutputParams

SpecParams == Init /\ [][NextParams]_vars

\* Two objects: a script that loads, processes, configures, cancels and closes
\* either of them in any order.
NextTwo ==
    \/ LoadFile \/ Close \/ Destroy
    \/ ProcessImage \/ ProcessImageReturn
    \/ SetOutputParams \/ SetCancelFlag \/ ClearCancelFlag
    \/ Swap

SpecTwo == Init /\ [][NextTwo]_vars

\* Loading: a script that loads files and Buffers, processes and closes.
NextLoad ==
    \/ NewBuffer \/ LoadFile \/ LoadBuffer \/ Close
    \/ ProcessImage \/ ProcessImageReturn

SpecLoad == Init /\ [][NextLoad]_vars

\* The version: a script that asks for it, whatever version the library has.
NextVersion == Version \/ VersionNumber

SpecVersion == InitVersion /\ [][NextVersion]_vars

\* ------------------------------------------------------------------ claims
\* The operation names of the methods that start with CheckLoaded.
GuardedOps ==
    {"getMetadata", "getImageSize", "getAdvancedMetadata", "getLensInfo", "getColorInfo",
     "unpackThumbnail", "processImage", "subtractBlack", "raw2Image", "adjustMaximum",
     "createMemoryImage", "createMemoryThumbnail", "writePPM", "writeTIFF",
     "writeThumbnail", "setOutputParams", "getOutputParams", "isFloatingPoint",
     "isFujiRotated", "isSRAW", "isJPEGThumb", "errorCount", "isNikonSRAW",
     "isCoolscanNEF", "haveFPData", "srawMidpoint", "thumbOK", "unpackFunctionName",
     "getDecoderInfo", "unpack", "raw2ImageEx", "adjustSizesInfoOnly", "freeImage",
     "convertFloatToInt", "getMemImageFormat", "copyMemImage", "getColorAt"}

\* C1: a guarded operation called while isLoaded is false fails with the
\* 'No file loaded' error, returns null, makes no call into the library and
\* leaves the three flags as they were.
C1_NotLoadedIsRejected ==
    (last.op \in GuardedOps /\ ~last.pre[1]) =>
        /\ last.error = NotLoadedError
        /\ last.result = "null"
        /\ last.calls = <<>>
        /\ last.ret = "none"
        /\ Flags = last.pre
        /\ active = "idle"

\* C1, its case: processImage rejected on a session whose last load opened its
\* file and then failed to unpack it.
C1_Witness ==
    /\ last.op = "processImage"
    /\ ~last.pre[1]
    /\ last.error = NotLoadedError
    /\ lib.src.kind = "file"

\* The calls by which the library emits the output image.
Emitters == {"dcraw_make_mem_image", "dcraw_ppm_tiff_writer", "copy_mem_image"}
OutputImageOps == {"createMemoryImage", "writePPM", "writeTIFF", "copyMemImage"}

\* C2: an operation that requires the output image, called on a loaded session
\* on which processImage has not succeeded since the load, is rejected by the
\* session and does not reach the library's emitter.
C2_OutputNeedsProcess ==
    (last.op \in OutputImageOps /\ last.pre[1] /\ ~last.pre[3]) =>
        /\ last.result = "null"
        /\ \A i \in DOMAIN last.calls : last.calls[i] \notin Emitters

\* C3: unpack() on a session already unpacked by its load succeeds without
\* running the library's unpack again and leaves the flags as they were.
C3_UnpackIsNoOp ==
    (last.op = "unpack" /\ last.pre[1] /\ last.pre[2]) =>
        /\ \A i \in DOMAIN last.calls : last.calls[i] # "unpack"
        /\ active = "idle" => (last.result = "true" /\ last.error = NoError)
        /\ Flags = last.pre

\* C4: processImage marks the session processed exactly on success: when
\* dcraw_process returns success isProcessed is true and the call returns true;
\* when it returns another code the call throws, returns null and the three
\* flags are what they were before the call.
C4_ProcessedExactlyOnSuccess ==
    (last.op = "processImage" /\ last.pre[1] /\ active = "idle") =>
        IF last.ret = LIBRAW_SUCCESS
        THEN /\ isProcessed
             /\ last.result = "true"
             /\ last.error = NoError
             /\ isLoaded = last.pre[1]
             /\ isUnpacked = last.pre[2]
        ELSE /\ last.ret \in FailCodes
             /\ last.result = "null"
             /\ last.error = LibError("Failed to process image: ", last.ret)
             /\ Flags = last.pre

\* C4, its case: dcraw_process failed on a session that had been processed
\* before, and the session is still marked processed.
C4_Witness ==
    /\ last.op = "processImage"
    /\ active = "idle"
    /\ last.ret \in FailCodes
    /\ last.pre = <<TRUE, TRUE, TRUE>>
    /\ isProcessed

\* C6: the bytes of every image object the script holds are the bytes the
\* library's image had when the object was made, in a cell of its own, whatever
\* the session has done since.
C6_HeldImagesKeepTheirBytes ==
    \A im \in held :
        /\ im.obj.data \in Addr
        /\ heap[im.obj.data] = im.snapshot
        /\ im.obj.data \notin bufs
        /\ \A other \in held : other.obj.data = im.obj.data => other = im

\* C6, its case: the script still holds an image after the session that made
\* it has been destroyed.
C6_Witness ==
    /\ ~alive
    /\ \E im \in held : im.obj.type = "bitmap" /\ heap[im.obj.data] = im.snapshot

\* C7: a successful writePPM writes a PPM container and a successful writeTIFF
\* a TIFF container, whatever was called on the session before.
C7_WriterNamesContainer ==
    /\ (last.op = "writePPM" /\ last.result = "true") => last.container = "PPM"
    /\ (last.op = "writeTIFF" /\ last.result = "true") => last.container = "TIFF"

\* C9: the cancellation flag can be set at any time, also while a processImage
\* or unpack call of the session is running.
C9_CancelSettableAtAnyTime ==
    (alive /\ active \in {"processImage", "unpack"}) => ENABLED SetCancelFlag

\* While a call is running no setCancelFlag can start: the flag changes only
\* between calls.
SetCancelFlagOnlyBetweenCalls ==
    [][active # "idle" => lib'.cancel = lib.cancel]_vars

\* C10: while a session is loaded from a Buffer, the library never reads that
\* source after the Buffer was released or overwritten.
C10_NoReadOfReleasedSource ==
    (isLoaded /\ lib.src.kind = "buffer") => ~last.stale

\* C11: after close returns, the library holds no open source and nothing
\* unpacked or processed for the session, and the three flags are false.
C11_CloseReleasesAll ==
    last.op = "close" =>
        /\ lib.src = NoSource
        /\ lib.stage = "none"
        /\ Flags = <<FALSE, FALSE, FALSE>>

\* C13: on a loaded session getMetadata and getLensInfo succeed; make, model,
\* software, lensName and lensSerial are present exactly when the string is not
\* empty, iso, shutterSpeed, aperture, focalLength, timestamp, minFocal and
\* maxFocal exactly when the value is greater than zero, and width, height,
\* rawWidth, rawHeight, colors and filters always.
C13_OptionalFieldsOmitted ==
    LET Str(key, f) == (key \in last.keys) <=> (Imgdata(lib.file).str[f] # "")
        Pos(key, f) == (key \in last.keys) <=> (Imgdata(lib.file).num[f] > 0)
    IN
    /\ (last.op \in {"getMetadata", "getLensInfo"} /\ last.pre[1]) =>
            /\ last.result = "object"
            /\ last.error = NoError
            /\ Flags = last.pre
    /\ (last.op = "getMetadata" /\ last.pre[1]) =>
            /\ Str("make", "idata.make")
            /\ Str("model", "idata.model")
            /\ Str("software", "idata.software")
            /\ Pos("iso", "other.iso_speed")
            /\ Pos("shutterSpeed", "other.shutter")
            /\ Pos("aperture", "other.aperture")
            /\ Pos("focalLength", "other.focal_len")
            /\ Pos("timestamp", "other.timestamp")
            /\ {"width", "height", "rawWidth", "rawHeight", "colors", "filters"}
                   \subseteq last.keys
    /\ (last.op = "getLensInfo" /\ last.pre[1]) =>
            /\ Str("lensName", "lens.Lens")
            /\ Str("lensSerial", "lens.LensSerial")
            /\ Pos("minFocal", "lens.MinFocal")
            /\ Pos("maxFocal", "lens.MaxFocal")

\* C13, its case: getMetadata on a loaded file that has a make and a model but a
\* negative timestamp returns an object without the timestamp.
C13_Witness ==
    /\ last.op = "getMetadata"
    /\ last.result = "object"
    /\ Imgdata(lib.file).num["other.timestamp"] < 0
    /\ "timestamp" \notin last.keys
    /\ {"make", "model", "width"} \subseteq last.keys

\* The prefix of the error a method throws for a library code, by operation
\* and by the number of library calls it had made.
ErrorPrefix(op, ncalls) ==
    CASE op = "loadFile"   -> IF ncalls = 1 THEN "Failed to open file: "
                              ELSE "Failed to unpack file: "
      [] op = "loadBuffer" -> IF ncalls = 1 THEN "Failed to open buffer: "
                              ELSE "Failed to unpack buffer: "
      [] op = "unpackThumbnail"       -> "Failed to unpack thumbnail: "
      [] op = "processImage"          -> "Failed to process image: "
      [] op = "subtractBlack"         -> "Failed to subtract black: "
      [] op = "raw2Image"             -> "Failed to convert raw to image: "
      [] op = "adjustMaximum"         -> "Failed to adjust maximum: "
      [] op = "createMemoryImage"     -> "Failed to create memory image: "
      [] op = "createMemoryThumbnail" -> "Failed to create memory thumbnail: "
      [] op = "writePPM"              -> "Failed to write PPM file: "
      [] op = "writeTIFF"             -> "Failed to write TIFF file: "
      [] op = "writeThumbnail"        -> "Failed to write thumbnail: "
      [] op = "getDecoderInfo"        -> "Failed to get decoder info: "
      [] op = "unpack"                -> "Failed to unpack: "
      [] op = "raw2ImageEx"           -> "Failed to convert raw to image: "
      [] op = "adjustSizesInfoOnly"   -> "Failed to adjust sizes: "
      [] op = "copyMemImage"          -> "Failed to copy memory image: "
      [] OTHER                        -> ""

\* The operations that wrap a library call with a status code.
StatusOps ==
    {"loadFile", "loadBuffer", "unpackThumbnail", "processImage", "subtractBlack",
     "raw2Image", "adjustMaximum", "createMemoryImage", "createMemoryThumbnail",
     "writePPM", "writeTIFF", "writeThumbnail", "getDecoderInfo", "unpack",
     "raw2ImageEx", "adjustSizesInfoOnly", "copyMemImage"}

\* C14: an operation that wraps a library call with a status code returns a
\* value other than null only if the library returned success, and a
\* non-success code makes it throw its prefix followed by the library's message
\* for that code and return null.
C14_NoCodeSwallowed ==
    active = "idle" =>
        /\ last.ret \in FailCodes =>
               /\ last.op \in StatusOps
               /\ last.result = "null"
               /\ last.error = <<"Error", ErrorPrefix(last.op, Len(last.calls)),
                                 libraw_strerror(last.ret)>>
        /\ (last.op \in StatusOps /\ last.result # "null") =>
               /\ last.ret = LIBRAW_SUCCESS
               /\ last.error = NoError

\* C14, its case: loadFile whose open succeeded and whose unpack was
\* cancelled throws the unpack error and returns null.
C14_Witness ==
    /\ last.op = "loadFile"
    /\ last.calls = <<"open_file", "unpack">>
    /\ last.ret = "LIBRAW_CANCELLED_BY_CALLBACK"
    /\ last.result = "null"
    /\ last.error = <<"Error", "Failed to unpack file: ", "Cancelled by user callback">>

\* C15: a loadFile or loadBuffer that fails on a loaded session leaves the
\* library holding the earlier source, as far unpacked and processed as it
\* was, and leaves the three flags unchanged.
C15_FailedLoadPreservesState ==
    [][(/\ last'.op \in {"loadFile", "loadBuffer"}
        /\ last'.ret \in FailCodes
        /\ isLoaded)
       => (/\ lib'.src = lib.src
           /\ lib'.stage = lib.stage
           /\ Flags' = Flags)]_vars

\* The number getOutputParams reports for a number n given for an int, a
\* float or a double field: n itself, or n as the field's C type holds it.
ReportedInt(n, converted)    == IF converted THEN 4 * Int32Value(n) ELSE n
ReportedFloat(n, converted)  == IF converted THEN FloatValue(n) ELSE n
ReportedDouble(n, converted) == IF converted THEN DoubleValue(n) ELSE n

\* What getOutputParams is expected to report after setOutputParams(o) on a
\* session that reported `before`: a field of the expected type takes the
\* argument's value, every other field keeps the value it had.
Expected(o, before, converted) ==
    [gamma          |-> IF o.gamma.t = "array" /\ Len(o.gamma.a) >= 2
                        THEN Array(<<ReportedDouble(o.gamma.a[1], converted),
                                     ReportedDouble(o.gamma.a[2], converted)>>)
                        ELSE before.gamma,
     bright         |-> IF o.bright.t = "number"
                        THEN Number(ReportedFloat(o.bright.n, converted))
                        ELSE before.bright,
     output_color   |-> IF o.output_color.t = "number"
                        THEN Number(ReportedInt(o.output_color.n, converted))
                        ELSE before.output_color,
     output_bps     |-> IF o.output_bps.t = "number"
                        THEN Number(ReportedInt(o.output_bps.n, converted))
                        ELSE before.output_bps,
     user_mul       |-> IF o.user_mul.t = "array"
                        THEN Array([i \in 1..4 |->
                                       IF i <= Len(o.user_mul.a)
                                       THEN ReportedFloat(o.user_mul.a[i], converted)
                                       ELSE before.user_mul.a[i]])
                        ELSE before.user_mul,
     no_auto_bright |-> IF o.no_auto_bright.t = "boolean" THEN o.no_auto_bright
                        ELSE before.no_auto_bright,
     highlight      |-> IF o.highlight.t = "number"
                        THEN Number(ReportedInt(o.highlight.n, converted))
                        ELSE before.highlight,
     output_tiff    |-> IF o.output_tiff.t = "boolean" THEN o.output_tiff
                        ELSE before.output_tiff]

\* getOutputParams on a loaded session reports the parameters the library holds.
ReportsStored ==
    (last.op = "getOutputParams" /\ last.result = "object")
        => last.object = <<GetOutputParamsObject(lib.params)>>

\* C16 as stated: after setOutputParams(o) getOutputParams reports, for every
\* field of the expected type, the value given in o, and for every other field
\* the value it reported before.
C16_RoundTripExact ==
    /\ [][(last'.op = "setOutputParams" /\ last'.result = "true")
           => GetOutputParamsObject(lib'.params)
                  = Expected(last'.arg[1], GetOutputParamsObject(lib.params), FALSE)]_vars
    /\ []ReportsStored

\* C16, amended: after setOutputParams(o) getOutputParams reports, for every
\* field of the expected type, the value given in o as the field's C type
\* holds it (an int field the number truncated to an integer, bright and
\* user_mul the number in single precision, gamma the number itself), and for
\* every other field the value it reported before.
C16_RoundTripConverted ==
    /\ [][(last'.op = "setOutputParams" /\ last'.result = "true")
           => GetOutputParamsObject(lib'.params)
                  = Expected(last'.arg[1], GetOutputParamsObject(lib.params), TRUE)]_vars
    /\ []ReportsStored

\* getOutputParams reports a bright and an output_bps that two earlier
\* setOutputParams calls stored, one field each.
C16_Witness ==
    /\ last.op = "getOutputParams"
    /\ last.result = "object"
    /\ last.object[1].bright = Number(6)
    /\ last.object[1].output_bps = Number(64)
    /\ last.object[1].user_mul = Array(<<8, 8, 4, 6>>)

\* C17: on a loaded session the output parameters hold only recognized
\* option values: output_bps 8 or 16, output_color one of the six colour-space
\* codes, highlight one of the highlight modes.
C17_OnlyRecognizedOptions ==
    isLoaded =>
        /\ lib.params.output_bps \in {8, 16}
        /\ lib.params.output_color \in 0..5
        /\ lib.params.highlight \in 0..9

\* C18: two sessions share no mutable state: no operation on one object
\* changes the flags, the output parameters, the cancel flag or the loaded
\* data of the other; the other object's members change only when the script
\* turns to it, and are then exactly what its own operations left.
C18_SessionsShareNothing ==
    [][peer' # peer => (peer' = Session /\ Session' = peer)]_vars

\* One object has just set its cancel flag while the other is loaded with its
\* cancel flag clear.
C18_Witness ==
    /\ last.op = "setCancelFlag"
    /\ lib.cancel
    /\ peer.isLoaded
    /\ ~peer.lib.cancel

\* C19: a loaded session's library instance holds a successfully opened and
\* successfully unpacked source.
C19_LoadedMeansUnpacked ==
    isLoaded => (lib.src # NoSource /\ lib.stage \in {"unpacked", "processed"})

\* C20: a session flagged processed holds a processed output image of the
\* currently loaded source.
C20_ProcessedMeansImage ==
    isProcessed => lib.stage = "processed"

\* C21: the three flags are always one of (false, false, false),
\* (true, true, false), (true, true, true): isUnpacked = isLoaded and
\* isProcessed implies isLoaded.
C21_FlagsAreLinear ==
    Flags \in {<<FALSE, FALSE, FALSE>>, <<TRUE, TRUE, FALSE>>, <<TRUE, TRUE, TRUE>>}

\* A processed session has just been closed.
C21_Witness ==
    /\ last.op = "close"
    /\ last.pre = <<TRUE, TRUE, TRUE>>
    /\ Flags = <<FALSE, FALSE, FALSE>>

\* C22: a successful loadFile or loadBuffer leaves isLoaded and isUnpacked
\* true and isProcessed false, whatever the flags were before.
C22_LoadResetsFlags ==
    [][(last'.op \in {"loadFile", "loadBuffer"} /\ last'.result = "true")
       => Flags' = <<TRUE, TRUE, FALSE>>]_vars

\* A Buffer has just been loaded into a session that was loaded and processed.
C22_Witness ==
    /\ last.op = "loadBuffer"
    /\ last.result = "true"
    /\ last.pre = <<TRUE, TRUE, TRUE>>
    /\ Flags = <<TRUE, TRUE, FALSE>>

\* The step is a call of a method that made the library call `call`.
Calls(call) == last' # last /\ (\E i \in DOMAIN last'.calls : last'.calls[i] = call)

\* C23: close returns true in every state; with nothing loaded it calls
\* nothing and changes nothing, and it always leaves nothing loaded, so a
\* second close has no effect; recycle is called only for a load that has not
\* been recycled yet (on a loaded session, which the call leaves unloaded or
\* destroyed, and only a successful load makes a session loaded), so never
\* twice for one load and not by a destruction after close.
C23_CloseIdempotentRecycleOnce ==
    /\ [][(last' # last /\ last'.op = "close")
           => /\ last'.result = "true"
              /\ Flags' = <<FALSE, FALSE, FALSE>>
              /\ ~isLoaded => (last'.calls = <<>> /\ lib' = lib /\ Flags' = Flags)]_vars
    /\ [][Calls("recycle") => (isLoaded /\ (~isLoaded' \/ ~alive'))]_vars
    /\ [][(~isLoaded /\ isLoaded')
           => (last'.op \in {"loadFile", "loadBuffer"} /\ last'.result = "true")]_vars

\* A session closed earlier has been destroyed without another recycle.
C23_Witness ==
    /\ ~alive
    /\ last.op = "destroy"
    /\ last.pre = <<FALSE, FALSE, FALSE>>
    /\ last.calls = <<>>
    /\ lib.params # DefaultParams

\* The guarded methods that check their arguments.
ArgGuardedOps ==
    {"writePPM", "writeTIFF", "writeThumbnail", "setOutputParams", "copyMemImage",
     "getColorAt"}

IsTypeError(error) == error # NoError /\ error[1] = "TypeError"

\* C24: a call that ended in a type error made no library call; a guarded
\* method that takes arguments ends in a type error only on a loaded session
\* and on an unloaded one in the 'No file loaded' error; and a call that ends
\* in a type error changes no flag and nothing the library holds, output
\* parameters included.
C24_ValidationAfterGuardNoEffect ==
    /\ [](IsTypeError(last.error) =>
             /\ last.calls = <<>>
             /\ last.result = "null"
             /\ last.op \in ArgGuardedOps => last.pre[1])
    /\ []((last.op \in ArgGuardedOps /\ ~last.pre[1]) => last.error = NotLoadedError)
    /\ [][(last' # last /\ IsTypeError(last'.error))
           => (Flags' = Flags /\ lib' = lib)]_vars

\* writeTIFF without a filename on a loaded session whose output_tiff is 0.
C24_Witness ==
    /\ last.op = "writeTIFF"
    /\ IsTypeError(last.error)
    /\ isLoaded
    /\ lib.params.output_tiff = 0

\* C25: within a loaded session only setOutputParams changes what
\* getOutputParams reports: a step of any other method, succeeding or failing,
\* leaves the reported object as it was.
C25_OnlySetOutputParamsChangesParams ==
    [][(isLoaded /\ isLoaded' /\ last' # last /\ last'.op # "setOutputParams")
       => GetOutputParamsObject(lib'.params) = GetOutputParamsObject(lib.params)]_vars

\* The cells of images the library allocated and nobody released: the only
\* content no Buffer of the script has is that of an image the library
\* returned together with an error code.
Unreleased == {a \in Addr : heap[a] = Junk}

\* C26: every image the library allocates for createMemoryImage or
\* createMemoryThumbnail is released before the call returns, whether it came
\* with a success code or not: no call leaves an unreleased library image, and
\* a call that returns an object released the image after its bytes were copied.
C26_LibraryImagesReleased ==
    /\ Unreleased = {}
    /\ (last.op \in {"createMemoryImage", "createMemoryThumbnail"} /\ last.result = "object")
          => last.calls[Len(last.calls)] = "dcraw_clear_mem"

\* C27: libraw_wrapper.cpp and libraw_wrapper_new.cpp are equivalent on
\* processImage: called on objects with the same flags, with the library
\* answering the same, they make the same library calls, raise the same error
\* and end with the same flags; on an unloaded session neither calls the library.
C27_ImplementationsEquivalent ==
    [][(last' # last /\ last'.op = "processImage" /\ active' = "idle")
       => \A ret \in (IF last'.calls = <<>> THEN Codes ELSE {last'.ret}) :
             LET new == ProcessImageNew(last'.pre, ret) IN
             /\ new.calls = last'.calls
             /\ new.error = last'.error
             /\ new.flags = Flags']_vars

\* The methods without a state guard.
UnguardedOps ==
    {"setCancelFlag", "clearCancelFlag", "getLastError", "version", "versionNumber",
     "getVersion", "getCapabilities", "getCameraList", "getCameraCount"}

C30_GetLastErrorIsConstant ==
    /\ Idle => ENABLED GetLastError
    /\ last.op = "getLastError" =>
          /\ last.object = <<String("No error information available")>>
          /\ last.result = "string"
          /\ last.error = NoError
          /\ last.calls = <<>>

\* getLastError has answered on a session whose only load failed in unpack.
C30_Witness ==
    /\ last.op = "getLastError"
    /\ ~isLoaded
    /\ lib.stage = "opened"

====
